---- MODULE Spec2Model ----
(***************************************************************************)
(* Model of web3storage.py: the module function create_car and the class   *)
(* Client (credential resolution at construction, and the HTTP operations  *)
(* user_uploads, upload, upload_car, retrieve, metadata, http_header).     *)
(*                                                                         *)
(* A Python str is a tuple of symbols (each symbol a run of characters     *)
(* that the code never splits), so that +, strip, split, expanduser and    *)
(* the pathlib accessors are computed as the code computes them.           *)
(***************************************************************************)
EXTENDS Integers, Sequences, FiniteSets, TLC

VARIABLES env, fs, constructed, _endpoint, _token, consulted,
          fs0, sent, procs, made, opened, closed, last

vars == <<env, fs, constructed, _endpoint, _token, consulted,
          fs0, sent, procs, made, opened, closed, last>>

\* Python None: a value that is no str of the universes below.
None == <<"<None>">>

\* ------------------------------------------------------------------------
\* str helpers
\* ------------------------------------------------------------------------
Front(s) == SubSeq(s, 1, Len(s) - 1)

Contains(s, c) == \E i \in 1..Len(s) : s[i] = c

RECURSIVE LStrip(_)
LStrip(s) == IF s # <<>> /\ Head(s) = " " THEN LStrip(Tail(s)) ELSE s

RECURSIVE RStrip(_)
RStrip(s) == IF s # <<>> /\ s[Len(s)] = " " THEN RStrip(Front(s)) ELSE s

\* str.strip()
Strip(s) == RStrip(LStrip(s))

\* position of the first occurrence of c in s (s contains c)
FirstIndex(s, c) == CHOOSE i \in 1..Len(s) :
                        s[i] = c /\ \A j \in 1..(i - 1) : s[j] # c

\* s.split(c, 1) for an s that contains c
SplitOnce(s, c) == <<SubSeq(s, 1, FirstIndex(s, c) - 1),
                     SubSeq(s, FirstIndex(s, c) + 1, Len(s))>>

\* ------------------------------------------------------------------------
\* paths
\* ------------------------------------------------------------------------
HOME == "/home/u"

\* the symbols that are a '.'-led suffix of a file name
SuffixSyms == {".car", ".txt", ".tar", ".v1"}

\* os.path.expanduser: a leading "~" becomes the user's home directory
expanduser(p) == IF p # <<>> /\ Head(p) = "~" THEN <<HOME>> \o Tail(p) ELSE p

LastSlash(p) == IF Contains(p, "/")
                THEN CHOOSE i \in 1..Len(p) :
                         p[i] = "/" /\ \A j \in (i + 1)..Len(p) : p[j] # "/"
                ELSE 0

\* pathlib: Path.name, Path.parent, Path.suffixes, Path.stem
PathName(p) == SubSeq(p, LastSlash(p) + 1, Len(p))

PathParent(p) == IF LastSlash(p) = 0 THEN <<".">>
                 ELSE SubSeq(p, 1, LastSlash(p) - 1)

PathSuffixes(p) == IF PathName(p) = <<>> THEN <<>>
                   ELSE SelectSeq(Tail(PathName(p)), LAMBDA c : c \in SuffixSyms)

PathStem(p) == IF PathSuffixes(p) # <<>> THEN Front(PathName(p)) ELSE PathName(p)

\* Path.exists / os.path.exists on a file system f
PathExists(f, p) == p \in DOMAIN f

File(lines) == [kind |-> "file", lines |-> lines]
Dir == [kind |-> "dir", lines |-> <<>>]
\* nothing at the path (used only to draw the initial file systems)
Absent == [kind |-> "absent", lines |-> <<>>]

\* the file system f with entry p set to e
WithEntry(f, p, e) == [q \in DOMAIN f \cup {p} |-> IF q = p THEN e ELSE f[q]]

\* ------------------------------------------------------------------------
\* Client._read_config / Client._read_from_config / Client.__init__
\* ------------------------------------------------------------------------
KeyText == <<"ACCESS_TOKEN">>

\* Python `key in ("ACCESS_TOKEN")`: the parentheses make no tuple, so this
\* is the substring test on the str "ACCESS_TOKEN"
KeyAccepted(key) == key \in {<<>>, <<"ACCESS">>, KeyText}

\* the loop body of _read_config on one line
ReadLine(config, line) ==
    IF Contains(line, ":")
    THEN LET kv == SplitOnce(Strip(line), ":")
         IN  IF KeyAccepted(kv[1])
             THEN [k \in DOMAIN config \cup {kv[1]} |->
                      IF k = kv[1] THEN Strip(kv[2]) ELSE config[k]]
             ELSE config
    ELSE config

RECURSIVE ReadLines(_, _)
ReadLines(config, lines) ==
    IF lines = <<>> THEN config
    ELSE ReadLines(ReadLine(config, Head(lines)), Tail(lines))

\* _read_config(path) for a path that open() can read
read_config(f, path) == ReadLines(<<>>, f[path].lines)

\* dict.get
DictGet(d, k) == IF k \in DOMAIN d THEN d[k] ELSE None

DefaultRc == expanduser(<<"~", "/", ".web3_storage_token">>)

\* a resolver that never looks at the environment variable
DotrcIgnoresEnv(e) == DefaultRc

\* os.environ.get("ACCESS_TOKEN", os.path.expanduser("~/.web3_storage_token"))
Dotrc(e) == IF e = None THEN DefaultRc ELSE e

\* _read_from_config: <<outcome, value>>
read_from_config(e, f) ==
    IF PathExists(f, Dotrc(e))
    THEN IF f[Dotrc(e)].kind = "dir"
         THEN <<"IsADirectoryError", None>>
         ELSE <<"ok", DictGet(read_config(f, Dotrc(e)), KeyText)>>
    ELSE <<"ok", None>>

\* ------------------------------------------------------------------------
\* universes of the inputs
\* ------------------------------------------------------------------------
MaxLines == 2

Endpoints == {<<"https://api.web3.storage">>, <<"http://localhost:8787">>}

\* tokens a caller passes: a token, the empty str, and a token that is also
\* the name of the configuration key
Tokens == {<<"tokC">>, <<>>, <<"tokA">>}

LineSamples ==
    { <<"ACCESS_TOKEN", ":", " ", "tokA">>,
      <<" ", "ACCESS_TOKEN", ":", "tokB", " ">>,
      <<"ACCESS_TOKEN", " ", ":", "tokA">>,
      <<"ACCESS", ":", "tokB">>,
      <<":", "tokB">>,
      <<"tokA">>,
      <<"ACCESS_TOKEN", ":", "tokA", ":", "tokB">> }

RECURSIVE SeqsUpTo(_, _)
SeqsUpTo(S, n) ==
    IF n = 0 THEN {<<>>}
    ELSE SeqsUpTo(S, n - 1) \cup
         {Append(s, x) : s \in {t \in SeqsUpTo(S, n - 1) : Len(t) = n - 1}, x \in S}

\* what may be found at a path: nothing, a directory, or a file
RcContents == {Absent, Dir} \cup {File(ls) : ls \in SeqsUpTo(LineSamples, MaxLines)}
AltContents == {Absent, Dir} \cup {File(<<l>>) : l \in LineSamples}

AltRc == <<"/etc", "/", "w3rc">>

\* values of the ACCESS_TOKEN environment variable: unset, a path, a token
EnvValues == {None, AltRc, <<"tokA">>}

BaseFs == [p \in {<<".">>, <<HOME>>} |-> Dir]

\* the file system f with e at p, or unchanged when e is Absent
Place(f, p, e) == IF e = Absent THEN f ELSE WithEntry(f, p, e)

NoCall == [op |-> "none", args |-> <<>>, result |-> "none"]

InitProgram ==
    /\ constructed = FALSE
    /\ _endpoint = None
    /\ _token = None
    /\ consulted = {}
    /\ fs0 = fs
    /\ sent = <<>>
    /\ procs = <<>>
    /\ made = {}
    /\ opened = <<>>
    /\ closed = <<>>
    /\ last = NoCall

InitCred ==
    /\ env \in EnvValues
    /\ \E rc \in RcContents, alt \in AltContents :
           fs = Place(Place(BaseFs, DefaultRc, rc), AltRc, alt)
    /\ InitProgram

\* ------------------------------------------------------------------------
\* Client.__init__(endpoint, token)
\* ------------------------------------------------------------------------
\* a constructor that reads the configuration first and falls back on the
\* token it was given
ResolveTokenConfigFirst(token, e, f) ==
    IF token = None \/ (read_from_config(e, f)[1] = "ok"
                         /\ read_from_config(e, f)[2] # None)
    THEN <<read_from_config(e, f)[1], read_from_config(e, f)[2],
           {<<"os.environ">>, Dotrc(e)}>>
    ELSE <<"ok", token, {}>>

\* self._token = self._read_from_config if token is None else token
\* <<outcome, token, what was consulted>>
ResolveToken(token, e, f) ==
    IF token = None
    THEN <<read_from_config(e, f)[1], read_from_config(e, f)[2],
           {<<"os.environ">>, Dotrc(e)}>>
    ELSE <<"ok", token, {}>>

Construct(endpoint, token) ==
    /\ ~constructed
    /\ LET r == ResolveToken(token, env, fs)
       IN  /\ constructed' = (r[1] = "ok")
           /\ _endpoint' = IF r[1] = "ok" THEN endpoint ELSE _endpoint
           /\ _token' = IF r[1] = "ok" THEN r[2] ELSE _token
           /\ consulted' = r[3]
           /\ last' = [op |-> "__init__", args |-> <<endpoint, token>>,
                       result |-> IF r[1] = "ok" THEN "Client" ELSE r[1]]
    /\ fs0' = fs
    /\ sent' = <<>>
    /\ procs' = <<>>
    /\ made' = {}
    /\ opened' = IF token = None /\ PathExists(fs, Dotrc(env))
                     /\ fs[Dotrc(env)].kind = "file"
                 THEN <<Dotrc(env)>> ELSE <<>>
    /\ closed' = opened'
    /\ UNCHANGED <<env, fs>>

\* ------------------------------------------------------------------------
\* what one call does: its result (the kind of value returned, or the
\* exception raised), the HTTP requests sent, the files opened, the
\* subprocesses run, the directories made, the file system left behind and
\* (create_car) the 'output' entry of the returned dict
\* ------------------------------------------------------------------------
Out(result, f) ==
    [result |-> result, sent |-> <<>>, opened |-> <<>>, procs |-> <<>>,
     made |-> {}, fs |-> f, output |-> None]

\* BearerAuth.__call__ on a request: "Bearer " + self.token
BearerHeader(token) == <<"Bearer ">> \o token

\* requests.get / requests.post / requests.head with auth=self._bearer_auth:
\* the request is prepared (BearerAuth.__call__ runs) and then sent
HttpCall(o, method, url, body, headers, token) ==
    IF token = None
    THEN [o EXCEPT !.result = "TypeError: Bearer + None"]
    ELSE [o EXCEPT !.result = "Response",
                   !.sent = <<[method |-> method, url |-> url,
                               authorization |-> BearerHeader(token),
                               body |-> body, headers |-> headers]>>]

\* ------------------------------------------------------------------------
\* create_car(source_dir, output_file)
\* ------------------------------------------------------------------------
acceptable_extensions == {<<".car">>}

\* lines 41-58: <<outcome, output_file>>
ResolveOutput(source_dir, output_file) ==
    IF output_file = None \/ output_file = <<>>
    THEN <<"ok", PathStem(expanduser(source_dir)) \o <<".car">>>>
    ELSE LET extension == PathSuffixes(expanduser(output_file))
         IN  IF extension \notin acceptable_extensions
             THEN <<"Exception: Extension must be in", None>>
             ELSE IF extension = <<>>
                  THEN <<"ok", expanduser(expanduser(output_file) \o <<".car">>)>>
                  ELSE <<"ok", expanduser(output_file)>>

\* a packager without the check of line 61
OutputExistsUnchecked(f, output_file) == FALSE

\* line 61: output_obj.exists()
OutputExists(f, output_file) == PathExists(f, output_file)

\* what ipfs-car leaves in the archive it writes
CarBytes == <<<<"car-bytes">>>>

\* lines 64-80: the directory of the output is made when absent, ipfs-car is
\* run and its stdout is split; tool is what the external program did:
\* "packed" (the archive is written, stdout has the two label lines) or
\* "failed" (no archive, stdout has no label lines)
RunPacker(f, source_dir, output_file, tool) ==
    LET parent == PathParent(output_file)
        mk == IF PathExists(f, parent) THEN {} ELSE {parent}
        f1 == IF PathExists(f, parent) THEN f ELSE WithEntry(f, parent, Dir)
        command == <<"ipfs-car", "--pack">> \o source_dir
                       \o <<"--output">> \o output_file
    IN  IF tool = "packed"
        THEN [Out("dict", WithEntry(f1, output_file, File(CarBytes)))
                 EXCEPT !.procs = <<command>>, !.made = mk,
                        !.output = output_file]
        ELSE [Out("IndexError", f1) EXCEPT !.procs = <<command>>, !.made = mk]

create_car(f, source_dir, output_file, tool) ==
    IF ~PathExists(f, expanduser(source_dir))
    THEN Out("FileNotFoundError", f)
    ELSE LET r == ResolveOutput(source_dir, output_file)
         IN  IF r[1] # "ok" THEN Out(r[1], f)
             ELSE IF OutputExists(f, r[2])
                  THEN Out("Exception: already exists", f)
                  ELSE RunPacker(f, expanduser(source_dir), r[2], tool)

\* ------------------------------------------------------------------------
\* Client methods
\* ------------------------------------------------------------------------
user_uploads(f, endpoint, token) ==
    HttpCall(Out("", f), "GET", endpoint \o <<"/user/uploads/">>, <<>>, {}, token)

\* open(file_path, "rb") inside upload: the path is opened as given
upload(f, endpoint, token, file_path, filename) ==
    IF file_path = None THEN Out("TypeError: expanduser(None)", f)
    ELSE IF ~PathExists(f, expanduser(file_path)) THEN Out("None", f)
    ELSE IF filename = None THEN Out("AttributeError", f)
    ELSE IF ~PathExists(f, file_path) THEN Out("FileNotFoundError", f)
    ELSE IF f[file_path].kind = "dir" THEN Out("IsADirectoryError", f)
    ELSE HttpCall([Out("", f) EXCEPT !.opened = <<file_path>>],
                  "POST", endpoint \o <<"/upload">>, f[file_path].lines,
                  {<<"X-NAME", filename>>}, token)

upload_car(f, endpoint, token, source_path, output_path, filename, tool) ==
    IF source_path = None THEN Out("TypeError: expanduser(None)", f)
    ELSE IF ~PathExists(f, expanduser(source_path)) THEN Out("None", f)
    ELSE LET car == create_car(f, source_path, output_path, tool)
         IN  IF car.result # "dict" THEN car
             ELSE IF filename = None THEN [car EXCEPT !.result = "AttributeError"]
             ELSE HttpCall([car EXCEPT !.opened = <<car.output>>],
                           "POST", endpoint \o <<"/car">>,
                           car.fs[car.output].lines,
                           {<<"X-NAME", filename>>}, token)

retrieve(f, endpoint, token, cid) ==
    IF cid = None THEN Out("None", f)
    ELSE HttpCall(Out("", f), "GET", endpoint \o <<"/car/">> \o cid, <<>>, {}, token)

metadata(f, endpoint, token, cid) ==
    IF cid = None THEN Out("None", f)
    ELSE HttpCall(Out("", f), "GET", endpoint \o <<"/status/">> \o cid, <<>>, {}, token)

http_header(f, endpoint, token, cid) ==
    IF cid = None THEN Out("None", f)
    ELSE HttpCall(Out("", f), "HEAD", endpoint \o <<"/car/">> \o cid, <<>>, {}, token)

\* ------------------------------------------------------------------------
\* the calls as actions
\* ------------------------------------------------------------------------
\* every file a call opens is opened in a with block, which closes it when
\* the block is left, normally or by an exception
Apply(op, args, o) ==
    /\ last' = [op |-> op, args |-> args, result |-> o.result]
    /\ fs0' = fs
    /\ fs' = o.fs
    /\ sent' = o.sent
    /\ procs' = o.procs
    /\ made' = o.made
    /\ opened' = o.opened
    /\ closed' = o.opened
    /\ UNCHANGED <<env, constructed, _endpoint, _token, consulted>>

CreateCar(source_dir, output_file, tool) ==
    Apply("create_car", <<source_dir, output_file>>,
          create_car(fs, source_dir, output_file, tool))

UserUploads ==
    /\ constructed
    /\ Apply("user_uploads", <<>>, user_uploads(fs, _endpoint, _token))

Upload(file_path, filename) ==
    /\ constructed
    /\ Apply("upload", <<file_path, filename>>,
             upload(fs, _endpoint, _token, file_path, filename))

UploadCar(source_path, output_path, filename, tool) ==
    /\ constructed
    /\ Apply("upload_car", <<source_path, output_path, filename>>,
             upload_car(fs, _endpoint, _token, source_path, output_path,
                        filename, tool))

Retrieve(cid) ==
    /\ constructed
    /\ Apply("retrieve", <<cid>>, retrieve(fs, _endpoint, _token, cid))

Metadata(cid) ==
    /\ constructed
    /\ Apply("metadata", <<cid>>, metadata(fs, _endpoint, _token, cid))

HttpHeader(cid) ==
    /\ constructed
    /\ Apply("http_header", <<cid>>, http_header(fs, _endpoint, _token, cid))

\* ------------------------------------------------------------------------
\* the worlds and the arguments of the calls
\* ------------------------------------------------------------------------
SrcTilde == <<"~", "/", "data">>
SrcHome == expanduser(SrcTilde)
SrcCwd == <<"data", ".v1">>
SrcNope == <<"nope">>

OutNoExt == <<"out">>
OutCar == <<"out", ".car">>
OutTxt == <<"out", ".txt">>
OutTarCar == <<"out", ".tar", ".car">>
OutNew == <<"new", "/", "out", ".car">>
OutDefault == <<"data", ".car">>

Bytes(tag) == File(<<<<tag>>>>)

GoodRc == File(<<<<"ACCESS_TOKEN", ":", " ", "tokA">>>>)

Cids == {<<"cid1">>, <<"cid2">>}
Filenames == {<<"name">>}
ToolOutcomes == {"packed", "failed"}

\* file systems for the HTTP operations
Init ==
    /\ env = None
    /\ \E rc \in {Absent, GoodRc},
          home \in {Absent, Bytes("home-bytes"), Dir},
          tilde \in {Absent, Bytes("tilde-bytes")},
          cwd \in {Absent, Bytes("cwd-bytes"), Dir} :
           fs = Place(Place(Place(Place(BaseFs, DefaultRc, rc),
                      SrcHome, home), SrcTilde, tilde), SrcCwd, cwd)
    /\ InitProgram

\* file systems for packaging
InitCar ==
    /\ env = None
    /\ \E home \in {Absent, Dir}, cwd \in {Absent, Dir}, new \in {Absent, Dir},
          old \in (SUBSET {OutDefault, OutCar}) \cup {{OutTxt}, {OutNoExt}} :
           fs = LET f == Place(Place(Place(Place(BaseFs, DefaultRc, GoodRc),
                               SrcHome, home), SrcCwd, cwd), <<"new">>, new)
                IN  [p \in DOMAIN f \cup old |->
                        IF p \in old THEN Bytes("old-bytes") ELSE f[p]]
    /\ InitProgram

NextCred == \E endpoint \in Endpoints, token \in Tokens \cup {None} :
               Construct(endpoint, token)

SpecCred == InitCred /\ [][NextCred]_vars

Next ==
    \/ \E endpoint \in Endpoints, token \in {None, <<"tokC">>} :
          Construct(endpoint, token)
    \/ UserUploads
    \/ \E file_path \in {None, SrcTilde, SrcHome, SrcCwd, SrcNope},
          filename \in Filenames \cup {None} : Upload(file_path, filename)
    \/ \E cid \in Cids \cup {None} : Retrieve(cid)
    \/ \E cid \in Cids \cup {None} : Metadata(cid)
    \/ \E cid \in Cids \cup {None} : HttpHeader(cid)
    \/ \E source_path \in {None, SrcCwd, SrcNope}, output_path \in {None, OutCar},
          filename \in Filenames \cup {None}, tool \in ToolOutcomes :
          UploadCar(source_path, output_path, filename, tool)
    \/ \E source_dir \in {SrcCwd, SrcNope}, output_file \in {None, OutCar},
          tool \in ToolOutcomes : CreateCar(source_dir, output_file, tool)

Spec == Init /\ [][Next]_vars

NextCar ==
    \/ \E endpoint \in Endpoints : Construct(endpoint, <<"tokC">>)
    \/ \E source_path \in {None, SrcTilde, SrcCwd, SrcNope},
          output_path \in {None, <<>>, OutNoExt, OutCar, OutTxt, OutTarCar, OutNew},
          filename \in Filenames \cup {None}, tool \in ToolOutcomes :
          UploadCar(source_path, output_path, filename, tool)
    \/ \E source_dir \in {SrcTilde, SrcCwd, SrcNope},
          output_file \in {None, <<>>, OutNoExt, OutCar, OutTxt, OutTarCar, OutNew},
          tool \in ToolOutcomes : CreateCar(source_dir, output_file, tool)

SpecCar == InitCar /\ [][NextCar]_vars

\* ------------------------------------------------------------------------
\* properties
\* ------------------------------------------------------------------------
\* a call that returned (a value of the named kind) rather than raised
Returned == {"None", "Response", "dict", "Client", "none"}
Raised(result) == result \notin Returned

IsInit == last.op = "__init__"

\* C1: a token passed to the constructor is the resolved credential, and
\* neither the environment variable nor any file is consulted, whatever the
\* environment and the configuration file hold.
C1_ExplicitTokenVerbatim ==
    (IsInit /\ last.args[2] # None) =>
        /\ last.result = "Client"
        /\ constructed
        /\ _token = last.args[2]
        /\ consulted = {}
        /\ opened = <<>>

\* an explicit token was used although the environment variable is set and
\* the configuration file holds another token
C1_Witness ==
    /\ IsInit /\ last.args[2] = <<"tokC">> /\ _token = <<"tokC">>
    /\ env = AltRc
    /\ PathExists(fs, DefaultRc) /\ fs[DefaultRc] = GoodRc
    /\ PathExists(fs, AltRc) /\ fs[AltRc].kind = "file"

\* C2: with no token passed, no configuration file and no environment
\* variable, construction does not complete (it fails with "credential not
\* found").
C2_MissingCredentialFails ==
    (IsInit /\ last.args[2] = None /\ env = None /\ ~PathExists(fs0, DefaultRc)) =>
        /\ Raised(last.result)
        /\ ~constructed

\* C3 as stated: with no token passed and the environment variable set to a
\* token T, the resolved credential is T.
C3_EnvValueIsToken ==
    (IsInit /\ last.args[2] = None /\ env # None /\ constructed) => _token = env

\* the lines of a configuration file that set the key: leading blanks
\* aside, the text before the first ':' is exactly ACCESS_TOKEN
SetsKey(line) ==
    /\ Len(Strip(line)) >= 2
    /\ Strip(line)[1] = "ACCESS_TOKEN"
    /\ Strip(line)[2] = ":"

KeyLines(lines) == {i \in 1..Len(lines) : SetsKey(lines[i])}

LastKeyLine(lines) == CHOOSE i \in KeyLines(lines) : \A j \in KeyLines(lines) : j <= i

\* C3 amended: with no token passed, the environment variable, when set,
\* is the path of the configuration file, read in place of
\* ~/.web3_storage_token; nothing at that path gives an absent credential,
\* a directory makes construction raise, and a file gives the stripped text
\* after the first ':' of its last ACCESS_TOKEN line (absent without one).
C3_EnvNamesConfigFile ==
    (IsInit /\ last.args[2] = None) =>
        LET path == IF env = None THEN <<HOME, "/", ".web3_storage_token">> ELSE env
        IN  /\ consulted = {<<"os.environ">>, path}
            /\ ~PathExists(fs, path) =>
                   constructed /\ _token = None /\ opened = <<>>
            /\ (PathExists(fs, path) /\ fs[path].kind = "dir") => ~constructed
            /\ (PathExists(fs, path) /\ fs[path].kind = "file") =>
                   /\ constructed
                   /\ opened = <<path>>
                   /\ _token = IF KeyLines(fs[path].lines) = {} THEN None
                               ELSE LET l == Strip(fs[path].lines[LastKeyLine(fs[path].lines)])
                                    IN  Strip(SubSeq(l, 3, Len(l)))

\* the environment variable names a file that holds tokB while the default
\* file holds tokA: the credential is tokB
C3_Witness ==
    /\ IsInit /\ last.args[2] = None /\ constructed
    /\ env = AltRc /\ PathExists(fs, AltRc)
    /\ fs[AltRc] = File(<<<<" ", "ACCESS_TOKEN", ":", "tokB", " ">>>>)
    /\ PathExists(fs, DefaultRc) /\ fs[DefaultRc] = GoodRc
    /\ _token = <<"tokB">>

\* C4: upload, upload_car and create_car on a source path that does not
\* exist fail with "path not found" and issue no HTTP request and no
\* subprocess.
C4_MissingPathFails ==
    (/\ last.op \in {"upload", "upload_car", "create_car"}
     /\ last.args[1] # None
     /\ ~PathExists(fs0, expanduser(last.args[1]))) =>
        /\ last.result = "FileNotFoundError"
        /\ sent = <<>>
        /\ procs = <<>>

\* C5: in create_car with an output path given, a path without extension
\* gets '.car' appended and packaging proceeds with the extended path, and
\* a path with another extension fails before ipfs-car is run.
C5_ExtensionHandling ==
    (/\ last.op = "create_car"
     /\ PathExists(fs0, expanduser(last.args[1]))
     /\ last.args[2] \notin {None, <<>>}) =>
        LET given == expanduser(last.args[2])
            extended == given \o <<".car">>
        IN  /\ (PathSuffixes(given) = <<>> /\ ~PathExists(fs0, extended)) =>
                   /\ Len(procs) = 1
                   /\ procs[1] = <<"ipfs-car", "--pack">> \o expanduser(last.args[1])
                                     \o <<"--output">> \o extended
            /\ PathSuffixes(given) \notin {<<>>, <<".car">>} =>
                   /\ last.result = "Exception: Extension must be in"
                   /\ procs = <<>>

\* the output file the claim speaks of: the given path, or <stem>.car
ClaimedOutput(source, output) ==
    IF output \in {None, <<>>} THEN PathStem(expanduser(source)) \o <<".car">>
    ELSE expanduser(output)

\* C6: when the output file of create_car (the given path, or the default
\* <source stem>.car) already exists, packaging fails, ipfs-car is not run,
\* no directory is made and the file system is left as it was; the failure
\* is the output conflict whenever the source exists and a given path has
\* the extension .car.
C6_ExistingOutputRefused ==
    (/\ last.op = "create_car"
     /\ PathExists(fs0, ClaimedOutput(last.args[1], last.args[2]))) =>
        /\ Raised(last.result)
        /\ procs = <<>>
        /\ made = {}
        /\ fs = fs0
        /\ (/\ PathExists(fs0, expanduser(last.args[1]))
            /\ (last.args[2] \in {None, <<>>}
                   \/ PathSuffixes(expanduser(last.args[2])) = <<".car">>)) =>
               last.result = "Exception: already exists"

\* create_car without an output path, whose default output data.car exists
C6_Witness ==
    /\ last.op = "create_car" /\ last.args = <<SrcCwd, None>>
    /\ PathExists(fs0, SrcCwd)
    /\ PathExists(fs0, OutDefault) /\ fs0[OutDefault] = Bytes("old-bytes")
    /\ last.result = "Exception: already exists"

\* C7: a call of upload, upload_car, retrieve, metadata or http_header
\* without its required argument fails with a validation error (it raises,
\* and not by handing the None on to expanduser) and sends no request and
\* runs no subprocess.
C7_MissingArgumentRejected ==
    (/\ last.op \in {"upload", "upload_car", "retrieve", "metadata", "http_header"}
     /\ last.args[1] = None) =>
        /\ Raised(last.result)
        /\ last.result # "TypeError: expanduser(None)"
        /\ sent = <<>>
        /\ procs = <<>>

\* the archive that upload_car had packed in the last call
Packed == {p \in DOMAIN fs \ DOMAIN fs0 : fs[p] = File(CarBytes)}

\* C8: upload and upload_car without a filename still send their one POST
\* with the file bytes, without an X-NAME header; with a filename they send
\* it in X-NAME.
C8_NameOptional ==
    /\ (/\ last.op = "upload" /\ last.args[1] # None /\ _token # None
        /\ expanduser(last.args[1]) = last.args[1]
        /\ PathExists(fs0, last.args[1]) /\ fs0[last.args[1]].kind = "file") =>
           /\ Len(sent) = 1
           /\ sent[1].method = "POST"
           /\ sent[1].url = _endpoint \o <<"/upload">>
           /\ sent[1].body = fs0[last.args[1]].lines
           /\ sent[1].headers = IF last.args[2] = None THEN {}
                                ELSE {<<"X-NAME", last.args[2]>>}
    /\ (last.op = "upload_car" /\ _token # None /\ Packed # {}) =>
           /\ Len(sent) = 1
           /\ sent[1].method = "POST"
           /\ sent[1].url = _endpoint \o <<"/car">>
           /\ sent[1].body = CarBytes
           /\ sent[1].headers = IF last.args[3] = None THEN {}
                                ELSE {<<"X-NAME", last.args[3]>>}

\* the method and the path of each operation's request
RowOf(op, args) ==
    CASE op = "user_uploads" -> <<"GET", <<"/user/uploads/">>>>
      [] op = "upload"       -> <<"POST", <<"/upload">>>>
      [] op = "upload_car"   -> <<"POST", <<"/car">>>>
      [] op = "retrieve"     -> <<"GET", <<"/car/">> \o args[1]>>
      [] op = "metadata"     -> <<"GET", <<"/status/">> \o args[1]>>
      [] op = "http_header"  -> <<"HEAD", <<"/car/">> \o args[1]>>

\* the call passed the validation of its arguments (and, for upload_car,
\* the archive was packed)
Validated ==
    CASE last.op = "user_uploads" -> TRUE
      [] last.op = "upload" ->
            last.args[1] # None /\ PathExists(fs0, expanduser(last.args[1]))
      [] last.op = "upload_car" ->
            last.args[1] # None /\ PathExists(fs0, expanduser(last.args[1]))
                /\ Packed # {}
      [] last.op \in {"retrieve", "metadata", "http_header"} -> last.args[1] # None
      [] OTHER -> FALSE

\* C9: every validated operation of a client that holds a credential has
\* sent exactly one request, with the method and path of its row, to the
\* configured endpoint and with the bearer credential of the construction.
C9_OneRequestPerValidatedCall ==
    (constructed /\ _token # None /\ Validated) =>
        /\ Len(sent) = 1
        /\ sent[1].method = RowOf(last.op, last.args)[1]
        /\ sent[1].url = _endpoint \o RowOf(last.op, last.args)[2]
        /\ sent[1].authorization = <<"Bearer ">> \o _token

\* C10: in upload, when the existence check passes on a file, that same
\* file is opened and streamed: one POST to /upload carries its bytes, and
\* the handle is closed on return.
C10_CheckedFileIsOpened ==
    (/\ last.op = "upload" /\ _token # None
     /\ last.args[1] # None /\ last.args[2] # None
     /\ PathExists(fs0, expanduser(last.args[1]))
     /\ fs0[expanduser(last.args[1])].kind = "file") =>
        /\ last.result = "Response"
        /\ Len(sent) = 1
        /\ sent[1].url = _endpoint \o <<"/upload">>
        /\ sent[1].body = fs0[expanduser(last.args[1])].lines
        /\ Len(opened) = 1
        /\ closed = opened

====
